---- MODULE Spec2Model ----
(***************************************************************************)
(* Model of timesketch_cli_client/commands/explore.py: the `explore`      *)
(* command (explore_group) and its helpers _create_empty_chip,             *)
(* get_filter_chips, search, format_output and describe_query.             *)
(*                                                                         *)
(* Text that is only passed through (query strings, labels, timestamps,   *)
(* format tags) is a TLA+ string.  Text the code looks inside (the         *)
(* --return-fields value, tested with Python's `in`) is a tuple of         *)
(* one-character strings.                                                  *)
(***************************************************************************)
EXTENDS Integers, Sequences, FiniteSets, TLC

VARIABLES
    args,            \* the parameters click passes to explore_group
    ctx,             \* ctx.obj: the ambient output format
    pc,              \* position inside explore_group
    output_format,   \* local of explore_group, lines 163-165
    new_line,        \* local of explore_group, lines 167-169
    query,           \* local of explore_group (rebound at line 182)
    query_filter,    \* local of explore_group, lines 171-178, 183, 193-201
    dataframe,       \* local of search, lines 77-84
    explore_calls,   \* the calls made to sketch.explore, in order
    stdout,          \* what click.echo has written, in order
    error,           \* the exception leaving explore_group, or None
    gfc              \* one direct call of get_filter_chips: input and result

vars == <<args, ctx, pc, output_format, new_line, query, query_filter,
          dataframe, explore_calls, stdout, error, gfc>>

-----------------------------------------------------------------------------
(* Bounds of the model *)

\* total number of --time-range, --time and --label values on one command line
MaxChips == 2
\* number of events in a response of sketch.explore
MaxRows == 1
\* number of values handed to a direct call of get_filter_chips
MaxValues == 3

-----------------------------------------------------------------------------
(* Values *)

\* Python's None, where a string is expected
None == "<None>"

\* the default of --limit
DefaultLimit == 40

Limits == {DefaultLimit, 5}
Orders == {"asc", "desc"}
Queries == {"*", "evil"}
Timestamps == {"2020-01-01T12:00"}
TimeRanges == {<<"2020-01-01", "2020-02-01">>}
Labels == {"star", "comment", "foo"}
\* --output: absent, empty, two tags format_output knows, one it does not
Outputs == {None, "", "csv", "tabular", "yaml"}
\* ctx.obj.output_format
AmbientFormats == {"text", "csv"}
ViewNames == {"my_view"}
Views == {None, ""} \cup ViewNames

\* Sequences over S of length 0..n
SeqUpTo(S, n) == UNION {[1..k -> S] : k \in 0..n}

\* Python truthiness of an optional str (None and '' are falsy)
TruthyStr(s) == s # None /\ s # ""

\* Python truthiness of a tuple (the empty tuple is falsy)
TruthyTuple(t) == t # <<>>

\* A value whose Python type the code inspects carries that type as its
\* field name: a str is [str |-> s], a tuple is [tuple |-> <<a, b>>].
PyStr(s) == [str |-> s]
PyTuple(t) == [tuple |-> t]

\* isinstance(v, str)
isinstance_str(v) == "str" \in DOMAIN v

-----------------------------------------------------------------------------
(* _create_empty_chip and get_filter_chips *)

_create_empty_chip ==
    [field |-> "", value |-> "", type |-> None, operator |-> "must"]

\* LabelValue with only star rewritten
LabelValue_StarOnly(label) ==
    IF label = "star" THEN "__ts_" \o label ELSE label

\* lines 48-49: the value stored for one label
LabelValue(label) ==
    IF label \in {"star", "comment"} THEN "__ts_" \o label ELSE label

\* lines 48-53: the chip of one label
LabelChip(label) ==
    [_create_empty_chip EXCEPT !.value = LabelValue(label), !.type = "label"]

\* RangeValue with the start of the range used for both ends
RangeValue_StartTwice(time_range) ==
    LET pair == IF isinstance_str(time_range)
                THEN <<time_range.str, time_range.str>>
                ELSE time_range.tuple
    IN  pair[1] \o "," \o pair[1]

\* lines 56-59: the value stored for one time range
RangeValue(time_range) ==
    LET pair == IF isinstance_str(time_range)
                THEN <<time_range.str, time_range.str>>
                ELSE time_range.tuple
    IN  pair[1] \o "," \o pair[2]

\* lines 56-61: the chip of one time range
RangeChip(time_range) ==
    [_create_empty_chip EXCEPT !.value = RangeValue(time_range),
                               !.type = "datetime_range"]

\* get_filter_chips with each chip inserted at the front of the list
get_filter_chips_Prepend(values, chip_type) ==
    LET n == Len(values) IN
    IF chip_type = "label"
    THEN [i \in 1..n |-> LabelChip(values[n + 1 - i])]
    ELSE IF chip_type = "datetime_range"
    THEN [i \in 1..n |-> RangeChip(values[n + 1 - i])]
    ELSE <<>>

\* lines 35-62
get_filter_chips(values, chip_type) ==
    IF chip_type = "label"
    THEN [i \in 1..Len(values) |-> LabelChip(values[i])]
    ELSE IF chip_type = "datetime_range"
    THEN [i \in 1..Len(values) |-> RangeChip(values[i])]
    ELSE <<>>

-----------------------------------------------------------------------------
(* search: the substring test of line 83 and DataFrame.drop of line 84 *)

\* The spelling of the field names used to build --return-fields values
FieldChars ==
    [label   |-> <<"l", "a", "b", "e", "l">>,
     labels  |-> <<"l", "a", "b", "e", "l", "s">>,
     message |-> <<"m", "e", "s", "s", "a", "g", "e">>]

\* ','.join(fields), character by character
RECURSIVE JoinComma(_)
JoinComma(fields) ==
    IF fields = <<>> THEN <<>>
    ELSE IF Len(fields) = 1 THEN FieldChars[fields[1]]
    ELSE FieldChars[fields[1]] \o <<",">> \o JoinComma(Tail(fields))

\* The --return-fields values tried: the default '', and lists that do and
\* do not name the field label
ReturnFieldsValues ==
    {JoinComma(<<>>), JoinComma(<<"message">>),
     JoinComma(<<"message", "label">>), JoinComma(<<"labels">>)}

\* Python's `needle in hay` for two str: needle occurs as a substring
StrContains(hay, needle) ==
    \E i \in 0..(Len(hay) - Len(needle)) :
        SubSeq(hay, i + 1, i + Len(needle)) = needle

\* line 83: 'label' in return_fields
LabelRequested(return_fields) == StrContains(return_fields, FieldChars["label"])

\* DataFrame.drop(columns=[column]); the column is always present here
\* (pandas raises KeyError otherwise)
DataFrameDrop(df, column) ==
    [df EXCEPT !.columns = SelectSeq(@, LAMBDA c : c # column)]

\* lines 83-86 of search: the frame returned for a raw response
SearchResult(raw, return_fields) ==
    IF ~LabelRequested(return_fields) THEN DataFrameDrop(raw, "label") ELSE raw

\* The responses sketch.explore may give: every one has a label column
RawColumns == {<<"message", "label">>, <<"label", "datetime", "message">>}
RawResponses == [columns : RawColumns, nrows : 0..MaxRows]

\* no DataFrame yet
NoFrame == [columns |-> <<>>, nrows |-> -1]

-----------------------------------------------------------------------------
(* format_output *)

\* result = None
NoResult == [format |-> None]

\* DataFrame.to_string / to_csv / tabulate: the rendering is the library's;
\* what is kept is the renderer, the header row (if shown) and the body size
Rendered(renderer, df, show_headers) ==
    [format |-> renderer,
     header |-> IF show_headers THEN <<df.columns>> ELSE <<>>,
     width  |-> Len(df.columns),
     nrows  |-> df.nrows]

\* format_output with to_string as the fallback for any other tag
format_output_TextFallback(df, fmt, show_headers) ==
    IF fmt = "csv" THEN Rendered("to_csv", df, show_headers)
    ELSE IF fmt = "tabular" THEN Rendered("tabulate_psql", df, show_headers)
    ELSE Rendered("to_string", df, show_headers)

\* lines 89-112
format_output(df, fmt, show_headers) ==
    IF fmt = "text" THEN Rendered("to_string", df, show_headers)
    ELSE IF fmt = "csv" THEN Rendered("to_csv", df, show_headers)
    ELSE IF fmt = "tabular" THEN Rendered("tabulate_psql", df, show_headers)
    ELSE NoResult

-----------------------------------------------------------------------------
(* click.echo, json.dumps and describe_query *)

Newline == [kind |-> "newline"]

\* click.echo(message, nl=nl): a None message writes nothing of its own,
\* and nl appends a line break in either case
Echo(message, nl) ==
    (IF message = NoResult THEN <<>> ELSE <<[kind |-> "text", message |-> message]>>)
    \o (IF nl THEN <<Newline>> ELSE <<>>)

Line(indent, text) == [indent |-> indent, text |-> text]

\* a JSON string (the values used need no escaping)
JsonStr(s) == "\"" \o s \o "\""

\* the lines of a list of already rendered items, each on a line of its own
\* at depth + 1; the empty list is []
JsonItems(items, depth, indent) ==
    [i \in 1..Len(items) |->
        Line((depth + 1) * indent,
             items[i] \o (IF i < Len(items) THEN "," ELSE ""))]

\* the lines of one chip at the given depth
JsonChip(chip, depth, indent, last) ==
    <<Line(depth * indent, "{"),
      Line((depth + 1) * indent, "\"field\": " \o JsonStr(chip.field) \o ","),
      Line((depth + 1) * indent, "\"value\": " \o JsonStr(chip.value) \o ","),
      Line((depth + 1) * indent, "\"type\": " \o JsonStr(chip.type) \o ","),
      Line((depth + 1) * indent, "\"operator\": " \o JsonStr(chip.operator)),
      Line(depth * indent, IF last THEN "}" ELSE "},")>>

RECURSIVE JsonChips(_, _, _)
JsonChips(chips, depth, indent) ==
    IF chips = <<>> THEN <<>>
    ELSE JsonChip(Head(chips), depth, indent, Len(chips) = 1)
         \o JsonChips(Tail(chips), depth, indent)

\* json.dumps(query_filter, indent=indent), as lines without their indentation
\* plus the width of that indentation; keys in the order of lines 171-178
json_dumps(qf, indent) ==
    <<Line(0, "{"),
      Line(indent, "\"from\": " \o ToString(qf.from) \o ","),
      Line(indent, "\"terminate_after\": " \o ToString(qf.terminate_after) \o ","),
      Line(indent, "\"size\": " \o ToString(qf.size) \o ","),
      Line(indent, "\"indices\": [")>>
    \o JsonItems([i \in 1..Len(qf.indices) |-> JsonStr(qf.indices[i])], 1, indent)
    \o <<Line(indent, "],"),
         Line(indent, "\"order\": " \o JsonStr(qf.order) \o ",")>>
    \o (IF qf.chips = <<>>
        THEN <<Line(indent, "\"chips\": []")>>
        ELSE <<Line(indent, "\"chips\": [")>>
             \o JsonChips(qf.chips, 2, indent)
             \o <<Line(indent, "]")>>)
    \o <<Line(0, "}")>>

\* 'prefix{}'.format(text) where text is a sequence of lines
Prefixed(prefix, lines) ==
    [i \in 1..Len(lines) |->
        IF i = 1 THEN Line(lines[1].indent, prefix \o lines[1].text) ELSE lines[i]]

\* a str message, as its lines
Plain(lines) == [format |-> "str", lines |-> lines]

\* describe_query: what its two click.echo calls write
describe_query(query_string, qf) ==
    Echo(Plain(<<Line(0, "Query string: " \o query_string)>>), TRUE)
    \o Echo(Plain(Prefixed("Filter: ", json_dumps(qf, 2))), TRUE)

-----------------------------------------------------------------------------
(* The sketch: its saved views (sketch.get_view) *)

SavedViews ==
    [my_view |->
        [query_string |-> "tag:suspicious",
         query_filter |->
            [from |-> 0, terminate_after |-> 500, size |-> 500,
             indices |-> <<"timeline_7">>, order |-> "desc",
             chips |-> <<[field |-> "domain", value |-> "example.com",
                          type |-> "term", operator |-> "must_not"]>>]]]

\* sketch.get_view(view_name=name)
get_view(name) == SavedViews[name]

-----------------------------------------------------------------------------
(* One invocation of explore_group *)

\* the command lines tried: at most MaxChips filter values in all
ChipArgs ==
    {c \in [times : SeqUpTo(Timestamps, MaxChips),
            time_ranges : SeqUpTo(TimeRanges, MaxChips),
            labels : SeqUpTo(Labels, MaxChips)] :
        Len(c.times) + Len(c.time_ranges) + Len(c.labels) <= MaxChips}

NoFilter == [from |-> 0, terminate_after |-> 0, size |-> 0, indices |-> <<>>,
             order |-> None, chips |-> <<>>]

NoCall == [values |-> <<>>, chip_type |-> None, result |-> <<>>, called |-> FALSE]

Locals ==
    /\ pc = "start"
    /\ output_format = None
    /\ new_line = TRUE
    /\ query = None
    /\ query_filter = NoFilter
    /\ dataframe = NoFrame
    /\ explore_calls = <<>>
    /\ stdout = <<>>
    /\ error = None

Init ==
    /\ \E c \in ChipArgs :
         args \in [query : Queries, times : {c.times},
                   time_ranges : {c.time_ranges}, labels : {c.labels},
                   header : BOOLEAN, output : Outputs,
                   return_fields : ReturnFieldsValues, order : Orders,
                   limit : Limits, view : Views, describe : BOOLEAN]
    /\ ctx \in [output_format : AmbientFormats]
    /\ gfc = NoCall
    /\ Locals

\* the tuple of str click passes for a repeated option, as typed values
PyStrs(values) == [i \in 1..Len(values) |-> PyStr(values[i])]
\* the tuple of pairs click passes for a repeated nargs=2 option
PyTuples(values) == [i \in 1..Len(values) |-> PyTuple(values[i])]

\* the chips of --label placed ahead of those of the time options
BuildChips_LabelsFirst(a) ==
    (IF TruthyTuple(a.labels)
     THEN get_filter_chips(a.labels, "label") ELSE <<>>)
    \o (IF TruthyTuple(a.time_ranges)
        THEN get_filter_chips(PyTuples(a.time_ranges), "datetime_range") ELSE <<>>)
    \o (IF TruthyTuple(a.times)
        THEN get_filter_chips(PyStrs(a.times), "datetime_range") ELSE <<>>)

\* lines 191-201: the chips of --time-range, then --time, then --label
BuildChips(a) ==
    (IF TruthyTuple(a.time_ranges)
     THEN get_filter_chips(PyTuples(a.time_ranges), "datetime_range") ELSE <<>>)
    \o (IF TruthyTuple(a.times)
        THEN get_filter_chips(PyStrs(a.times), "datetime_range") ELSE <<>>)
    \o (IF TruthyTuple(a.labels)
        THEN get_filter_chips(a.labels, "label") ELSE <<>>)

\* Setup with the trailing newline kept for every format
Setup_NewlineAlways ==
    /\ pc = "start"
    /\ output_format' = IF TruthyStr(args.output) THEN args.output
                        ELSE ctx.output_format
    /\ new_line' = TRUE
    /\ query' = args.query
    /\ query_filter' = [from |-> 0, terminate_after |-> args.limit,
                        size |-> args.limit, indices |-> <<"_all">>,
                        order |-> args.order, chips |-> <<>>]
    /\ pc' = "branch"
    /\ UNCHANGED <<args, ctx, dataframe, explore_calls, stdout, error, gfc>>

\* lines 162-178: the output format, the trailing newline, the fresh filter
Setup ==
    /\ pc = "start"
    /\ output_format' = IF TruthyStr(args.output) THEN args.output
                        ELSE ctx.output_format
    /\ new_line' = (output_format' # "csv")
    /\ query' = args.query
    /\ query_filter' = [from |-> 0, terminate_after |-> args.limit,
                        size |-> args.limit, indices |-> <<"_all">>,
                        order |-> args.order, chips |-> <<>>]
    /\ pc' = "branch"
    /\ UNCHANGED <<args, ctx, dataframe, explore_calls, stdout, error, gfc>>

\* LoadView with the chips of the command line added to the view's filter
LoadView_MergesChips ==
    /\ pc = "branch"
    /\ TruthyStr(args.view)
    /\ query' = get_view(args.view).query_string
    /\ query_filter' = [get_view(args.view).query_filter
                            EXCEPT !.chips = @ \o BuildChips(args)]
    /\ pc' = "resolved"
    /\ UNCHANGED <<args, ctx, output_format, new_line, dataframe,
                   explore_calls, stdout, error, gfc>>

\* lines 180-183: the saved view replaces the query and the filter
LoadView ==
    /\ pc = "branch"
    /\ TruthyStr(args.view)
    /\ query' = get_view(args.view).query_string
    /\ query_filter' = get_view(args.view).query_filter
    /\ pc' = "resolved"
    /\ UNCHANGED <<args, ctx, output_format, new_line, dataframe,
                   explore_calls, stdout, error, gfc>>

BuildFilter ==
    /\ pc = "branch"
    /\ ~TruthyStr(args.view)
    /\ query_filter' = [query_filter EXCEPT !.chips = @ \o BuildChips(args)]
    /\ pc' = "resolved"
    /\ UNCHANGED <<args, ctx, output_format, new_line, query, dataframe,
                   explore_calls, stdout, error, gfc>>

\* lines 184-186: --describe with a view
DescribeView ==
    /\ pc = "resolved"
    /\ TruthyStr(args.view)
    /\ args.describe
    /\ stdout' = stdout \o describe_query(query, query_filter)
    /\ pc' = "done"
    /\ UNCHANGED <<args, ctx, output_format, new_line, query, query_filter,
                   dataframe, explore_calls, error, gfc>>

\* lines 203-205: --describe without a view
DescribeAdhoc ==
    /\ pc = "resolved"
    /\ ~TruthyStr(args.view)
    /\ args.describe
    /\ stdout' = stdout \o describe_query(query, query_filter)
    /\ pc' = "done"
    /\ UNCHANGED <<args, ctx, output_format, new_line, query, query_filter,
                   dataframe, explore_calls, error, gfc>>

\* the arguments of the call of lines 77-79
ExploreCall ==
    [query_string |-> query, query_filter |-> query_filter,
     return_fields |-> args.return_fields, as_pandas |-> TRUE]

\* SketchExplore with the search issued before --describe is looked at
SketchExplore_BeforeDescribe ==
    /\ pc = "resolved"
    /\ explore_calls = <<>>
    /\ explore_calls' = Append(explore_calls, ExploreCall)
    /\ dataframe' \in RawResponses
    /\ pc' = IF args.describe THEN "resolved" ELSE "explored"
    /\ UNCHANGED <<args, ctx, output_format, new_line, query, query_filter,
                   stdout, error, gfc>>

\* lines 187/207 and 77-79: search calls sketch.explore, which returns
SketchExplore ==
    /\ pc = "resolved"
    /\ ~args.describe
    /\ explore_calls' = Append(explore_calls, ExploreCall)
    /\ dataframe' \in RawResponses
    /\ pc' = "explored"
    /\ UNCHANGED <<args, ctx, output_format, new_line, query, query_filter,
                   stdout, error, gfc>>

\* SketchExploreFails with one retry of the failed call
SketchExploreFails_Retries ==
    /\ pc = "resolved"
    /\ ~args.describe
    /\ explore_calls' = Append(explore_calls, ExploreCall)
    /\ IF explore_calls = <<>>
       THEN pc' = "resolved" /\ error' = error
       ELSE pc' = "raised" /\ error' = "explore failed"
    /\ UNCHANGED <<args, ctx, output_format, new_line, query, query_filter,
                   dataframe, stdout, gfc>>

\* lines 187/207 and 77-79: sketch.explore raises; nothing catches it
SketchExploreFails ==
    /\ pc = "resolved"
    /\ ~args.describe
    /\ explore_calls' = Append(explore_calls, ExploreCall)
    /\ error' = "explore failed"
    /\ pc' = "raised"
    /\ UNCHANGED <<args, ctx, output_format, new_line, query, query_filter,
                   dataframe, stdout, gfc>>

\* lines 83-86: search drops the label column and returns
DropLabel ==
    /\ pc = "explored"
    /\ dataframe' = SearchResult(dataframe, args.return_fields)
    /\ pc' = "searched"
    /\ UNCHANGED <<args, ctx, output_format, new_line, query, query_filter,
                   explore_calls, stdout, error, gfc>>

\* lines 188/208: click.echo(format_output(...), nl=new_line)
EchoResult ==
    /\ pc = "searched"
    /\ stdout' = stdout \o Echo(format_output(dataframe, output_format,
                                              args.header), new_line)
    /\ pc' = "done"
    /\ UNCHANGED <<args, ctx, output_format, new_line, query, query_filter,
                   dataframe, explore_calls, error, gfc>>

Next ==
    \/ Setup
    \/ LoadView
    \/ BuildFilter
    \/ DescribeView
    \/ DescribeAdhoc
    \/ SketchExplore
    \/ SketchExploreFails
    \/ DropLabel
    \/ EchoResult

Spec == Init /\ [][Next]_vars

-----------------------------------------------------------------------------
(* get_filter_chips called directly *)

ChipTypes == {"label", "datetime_range", "term"}
LabelInputs == {"star", "comment", "foo", "__ts_star"}
RangeInputs ==
    {PyStr("2020-01-01T12:00"), PyStr("not a date"),
     PyTuple(<<"2020-01-01", "2020-02-01">>), PyTuple(<<"tomorrow", "">>)}

InitChips ==
    /\ \E t \in ChipTypes :
         gfc \in [values : SeqUpTo(IF t = "datetime_range" THEN RangeInputs
                                   ELSE LabelInputs, MaxValues),
                  chip_type : {t}, result : {<<>>}, called : {FALSE}]
    /\ args = [query |-> "*", times |-> <<>>, time_ranges |-> <<>>,
               labels |-> <<>>, header |-> TRUE, output |-> None,
               return_fields |-> <<>>, order |-> "asc",
               limit |-> DefaultLimit, view |-> None, describe |-> FALSE]
    /\ ctx = [output_format |-> "text"]
    /\ Locals

CallGetFilterChips ==
    /\ ~gfc.called
    /\ gfc' = [gfc EXCEPT !.result = get_filter_chips(gfc.values, gfc.chip_type),
                          !.called = TRUE]
    /\ UNCHANGED <<args, ctx, pc, output_format, new_line, query, query_filter,
                   dataframe, explore_calls, stdout, error>>

NextChips == CallGetFilterChips

SpecChips == InitChips /\ [][NextChips]_vars

-----------------------------------------------------------------------------
(* Properties *)

\* the invocation takes the saved-view path / the ad-hoc path
ViewPath == args.view \in ViewNames
AdhocPath == ~TruthyStr(args.view)

\* the query and the filter have been resolved
Resolved == pc \in {"resolved", "explored", "searched", "done", "raised"}

\* the fields a comma-separated list names
RECURSIVE SplitComma(_, _)
SplitComma(chars, current) ==
    IF chars = <<>> THEN {current}
    ELSE IF Head(chars) = ","
    THEN {current} \cup SplitComma(Tail(chars), <<>>)
    ELSE SplitComma(Tail(chars), Append(current, Head(chars)))

ListedFields(return_fields) == SplitComma(return_fields, <<>>)

Recognized == {"text", "csv", "tabular"}

\* C1: whenever the fields listed in return_fields do not include label,
\* the table search returns, and the table explore prints, has no label
\* column.
C1_NoLabelColumnUnlessListed ==
    (pc \in {"searched", "done"} /\ ~args.describe
     /\ FieldChars["label"] \notin ListedFields(args.return_fields))
        => \A i \in 1..Len(dataframe.columns) : dataframe.columns[i] # "label"

\* the chip expected for the i-th --label value, written out
ExpectedLabelChip(label) ==
    [field |-> "",
     value |-> CASE label = "star" -> "__ts_star"
                 [] label = "comment" -> "__ts_comment"
                 [] OTHER -> label,
     type |-> "label", operator |-> "must"]

\* the chip expected for a (start, end) pair, written out
ExpectedRangeChip(start, end) ==
    [field |-> "", value |-> start \o "," \o end,
     type |-> "datetime_range", operator |-> "must"]

\* C2: with --describe, in either path, sketch.explore is never called and
\* no result is fetched or printed; when the command has returned it has
\* written exactly two messages, the line "Query string: <query>" and
\* "Filter: " followed by the JSON of the filter indented by two spaces per
\* level, each ended by a newline.
C2_DescribeNeverSearches ==
    args.describe =>
        /\ explore_calls = <<>>
        /\ dataframe = NoFrame
        /\ error = None
        /\ pc \notin {"explored", "searched", "raised"}
        /\ pc # "done" => stdout = <<>>
        /\ pc = "done" =>
            /\ Len(stdout) = 4
            /\ stdout[2] = Newline /\ stdout[4] = Newline
            /\ stdout[1] = [kind |-> "text", message |->
                  Plain(<<Line(0, "Query string: " \o query)>>)]
            /\ stdout[3].kind = "text"
            /\ LET lines == stdout[3].message.lines
                   n == Len(query_filter.chips)
               IN  /\ Len(lines) = 9 + Len(query_filter.indices)
                                   + (IF n = 0 THEN 0 ELSE 1 + 6 * n)
                   /\ lines[1] = Line(0, "Filter: {")
                   /\ lines[2] = Line(2, "\"from\": "
                                         \o ToString(query_filter.from) \o ",")
                   /\ lines[4] = Line(2, "\"size\": "
                                         \o ToString(query_filter.size) \o ",")
                   /\ lines[6] = Line(4, "\"" \o query_filter.indices[1] \o "\"")
                   /\ lines[Len(lines)] = Line(0, "}")
                   /\ \A i \in 1..Len(lines) : lines[i].indent \in {0, 2, 4, 6}
                   /\ \A k \in 1..n :
                        /\ lines[9 + 6 * k - 5] = Line(4, "{")
                        /\ lines[9 + 6 * k - 3] =
                              Line(6, "\"value\": \""
                                      \o query_filter.chips[k].value \o "\",")
                        /\ lines[9 + 6 * k].indent = 4

C2_Witness ==
    /\ args.describe /\ pc = "done" /\ AdhocPath
    /\ Len(query_filter.chips) = 2

\* C3: when --view names a saved view, the query string and the filter
\* handed to the search call or to describe are the view's stored ones,
\* whatever --query, --label, --time, --time-range, --limit and --order say.
C3_ViewReplacesFlags ==
    (ViewPath /\ Resolved) =>
        /\ query = SavedViews[args.view].query_string
        /\ query_filter = SavedViews[args.view].query_filter
        /\ \A i \in 1..Len(explore_calls) :
              /\ explore_calls[i].query_string = SavedViews[args.view].query_string
              /\ explore_calls[i].query_filter = SavedViews[args.view].query_filter
        /\ (args.describe /\ pc = "done") =>
              stdout = describe_query(SavedViews[args.view].query_string,
                                      SavedViews[args.view].query_filter)

C3_Witness ==
    /\ ViewPath /\ pc = "explored"
    /\ args.labels # <<>> /\ args.times # <<>>
    /\ args.query # "*" /\ args.limit # DefaultLimit /\ args.order = "asc"

\* C4: for chip_type 'label', the chip of star is valued __ts_star, the chip
\* of comment __ts_comment, the chip of any other label the label itself;
\* each has type 'label'.
C4_LabelValues ==
    (gfc.called /\ gfc.chip_type = "label") =>
        \A i \in 1..Len(gfc.values) :
            /\ i \in DOMAIN gfc.result
            /\ gfc.result[i].type = "label"
            /\ gfc.values[i] = "star" => gfc.result[i].value = "__ts_star"
            /\ gfc.values[i] = "comment" => gfc.result[i].value = "__ts_comment"
            /\ gfc.values[i] \notin {"star", "comment"} =>
                  gfc.result[i].value = gfc.values[i]

C4_Witness ==
    /\ gfc.called /\ gfc.chip_type = "label"
    /\ \E i, j, k \in 1..Len(gfc.values) :
          /\ gfc.values[i] = "comment" /\ gfc.values[j] = "foo"
          /\ gfc.values[k] = "__ts_star"
    /\ Len(gfc.result) = 3

\* C5: for chip_type 'datetime_range', the chip of a single timestamp t is
\* valued "t,t" and the chip of a pair (start, end) "start,end", whatever the
\* text of t, start and end; each has type 'datetime_range'.
C5_RangeValues ==
    (gfc.called /\ gfc.chip_type = "datetime_range") =>
        \A i \in 1..Len(gfc.values) :
            /\ i \in DOMAIN gfc.result
            /\ gfc.result[i].type = "datetime_range"
            /\ isinstance_str(gfc.values[i]) =>
                  gfc.result[i].value
                      = gfc.values[i].str \o "," \o gfc.values[i].str
            /\ ~isinstance_str(gfc.values[i]) =>
                  gfc.result[i].value
                      = gfc.values[i].tuple[1] \o "," \o gfc.values[i].tuple[2]

C5_Witness ==
    /\ gfc.called /\ gfc.chip_type = "datetime_range"
    /\ \E i, j \in 1..Len(gfc.values) :
          /\ gfc.values[i] = PyStr("not a date")
          /\ gfc.values[j] = PyTuple(<<"tomorrow", "">>)
          /\ gfc.result[i].value = "not a date,not a date"
          /\ gfc.result[j].value = "tomorrow,"

\* the chip get_filter_chips owes to one input value
ExpectedChip(value, chip_type) ==
    IF chip_type = "label" THEN ExpectedLabelChip(value)
    ELSE IF isinstance_str(value) THEN ExpectedRangeChip(value.str, value.str)
    ELSE ExpectedRangeChip(value.tuple[1], value.tuple[2])

\* C6: for the tags label and datetime_range get_filter_chips returns one
\* chip per input value, the i-th chip being that of the i-th value
\* (duplicates kept), each with field '' and operator 'must'; for any other
\* tag it returns the empty list.
C6_OneChipPerValue ==
    gfc.called =>
        IF gfc.chip_type \in {"label", "datetime_range"}
        THEN /\ Len(gfc.result) = Len(gfc.values)
             /\ \A i \in 1..Len(gfc.values) :
                   /\ gfc.result[i] = ExpectedChip(gfc.values[i], gfc.chip_type)
                   /\ gfc.result[i].field = ""
                   /\ gfc.result[i].operator = "must"
        ELSE gfc.result = <<>>

C6_Witness ==
    /\ gfc.called /\ gfc.chip_type = "label"
    /\ gfc.values = <<"foo", "star", "foo">>
    /\ Len(gfc.result) = 3

\* C7: sketch.explore is called at most once per invocation; when the call
\* fails the invocation ends there with that failure, nothing having been
\* printed and no second call made.
C7_FailurePropagates ==
    /\ Len(explore_calls) <= 1
    /\ error # None <=> pc = "raised"
    /\ pc = "raised" =>
          /\ error = "explore failed"
          /\ Len(explore_calls) = 1
          /\ stdout = <<>>
          /\ dataframe = NoFrame
          /\ ~ENABLED Next

C7_Witness == pc = "raised" /\ Len(explore_calls) = 1

\* C8 as stated: an invocation whose format tag is none of text, csv and
\* tabular writes nothing.
C8_NoOutputAtAll ==
    (pc = "done" /\ ~args.describe /\ output_format \notin Recognized)
        => stdout = <<>>

\* C8 as amended: for a tag other than text, csv and tabular format_output
\* returns None and raises nothing, and the invocation writes no result
\* text, only the newline click.echo appends for every format but csv.
C8_OnlyNewline ==
    (~args.describe /\ output_format \notin Recognized) =>
        /\ pc \in {"searched", "done"} =>
              format_output(dataframe, output_format, args.header) = NoResult
        /\ pc = "done" => (stdout = <<Newline>> /\ error = None)
        /\ pc = "searched" => ENABLED EchoResult

C8_Witness ==
    pc = "done" /\ ~args.describe /\ output_format = "yaml" /\ dataframe.nrows > 0

\* the chips owed to the command line: --time-range, --time, --label
ExpectedChips(a) ==
    [i \in 1..Len(a.time_ranges) |->
        ExpectedRangeChip(a.time_ranges[i][1], a.time_ranges[i][2])]
    \o [i \in 1..Len(a.times) |-> ExpectedRangeChip(a.times[i], a.times[i])]
    \o [i \in 1..Len(a.labels) |-> ExpectedLabelChip(a.labels[i])]

\* C9: in the ad-hoc path the query is the --query value and the filter has
\* from 0, size and terminate_after the --limit value, order the --order
\* value, indices ['_all'] and the chips of the --time-range values, then of
\* the --time values, then of the --label values; this is what search and
\* describe receive.  With --label star alone and the default query the
\* chips are one label chip valued __ts_star and the query is *.
C9_AdhocFilter ==
    (AdhocPath /\ Resolved) =>
        /\ query = args.query
        /\ query_filter = [from |-> 0, terminate_after |-> args.limit,
                           size |-> args.limit, indices |-> <<"_all">>,
                           order |-> args.order, chips |-> ExpectedChips(args)]
        /\ \A i \in 1..Len(explore_calls) :
              /\ explore_calls[i].query_string = args.query
              /\ explore_calls[i].query_filter = query_filter
        /\ (args.labels = <<"star">> /\ args.times = <<>>
            /\ args.time_ranges = <<>> /\ args.query = "*") =>
              /\ query = "*"
              /\ query_filter.chips =
                    <<[field |-> "", value |-> "__ts_star", type |-> "label",
                       operator |-> "must"]>>
        /\ (args.labels = <<>> /\ args.times = <<>> /\ args.time_ranges = <<>>)
              => query_filter.chips = <<>>

C9_Witness ==
    /\ AdhocPath /\ pc = "explored"
    /\ Len(args.time_ranges) = 1 /\ Len(args.labels) = 1
    /\ Len(explore_calls[1].query_filter.chips) = 2

\* what is written for a result rendered in the given format
ExpectedWrite(fmt) ==
    (IF fmt \in Recognized
     THEN <<[kind |-> "text", message |->
               format_output(dataframe, fmt, args.header)]>>
     ELSE <<>>)
    \o (IF fmt = "csv" THEN <<>> ELSE <<Newline>>)

\* C10 as stated: the effective format is the --output value whenever the
\* option is given, the ambient format otherwise.
C10_OutputWhenGiven ==
    pc # "start" =>
        output_format = IF args.output # None THEN args.output
                        ELSE ctx.output_format

\* C10 as amended: the effective format is the --output value whenever a
\* non-empty one is given and the ambient format otherwise (an empty
\* --output counts as absent), in both paths; the result is rendered in that
\* format and followed by a newline exactly when that format is not csv.
C10_EffectiveFormat ==
    pc # "start" =>
        /\ output_format = IF args.output \notin {None, ""} THEN args.output
                           ELSE ctx.output_format
        /\ (pc = "done" /\ ~args.describe) =>
              /\ stdout = ExpectedWrite(output_format)
              /\ (stdout # <<>> /\ stdout[Len(stdout)] = Newline)
                    <=> output_format # "csv"
              /\ output_format = "text" => stdout[1].message.format = "to_string"
              /\ output_format = "csv" => stdout[1].message.format = "to_csv"
              /\ output_format = "tabular"
                    => stdout[1].message.format = "tabulate_psql"

C10_Witness ==
    /\ pc = "done" /\ ~args.describe /\ ViewPath
    /\ args.output = "csv" /\ ctx.output_format = "text"
    /\ stdout # <<>> /\ stdout[Len(stdout)] # Newline

====
